---- MODULE Spec2Model ----
(***************************************************************************)
(* A model of FetchNatGeo.py: the date-range enumeration and its partition *)
(* into shards (SpecRange), one worker downloading the issues of its shard *)
(* canvas by canvas (SpecIssue), and the pool of worker processes started  *)
(* and joined by fetch_natgeo (Spec).                                      *)
(***************************************************************************)
EXTENDS Integers, Sequences, FiniteSets, TLC

\* ------------------------------------------------------------------ bounds

\* first calendar year of the date inputs that pass _format_date
FirstYear == 2024
\* number of consecutive calendar years the date inputs are drawn from
MaxYears == 2
\* largest --n-workers drawn
MaxWorkers == 3
\* config.retries (timeouts.retries of config.ini)
retries == 2
\* largest page count the viewer reports for an issue
MaxPages == 2
\* largest pixel width and height of a captured canvas
MaxDim == 2
\* largest shard handed to the worker of SpecIssue, largest range of SpecRun
MaxShard == 2
\* largest month (1-based) of the date inputs of the pool
MaxPoolMonth == 3
\* largest number of processes of the pool of SpecRun
MaxRunWorkers == 2

\* ------------------------------------------------------------------ state

VARIABLES
    \* fetch_natgeo and _get_timerange
    date_start,       \* the MM-YYYY start argument, as [mm, yyyy]
    date_end,         \* the MM-YYYY end argument, as [mm, yyyy]
    n_workers,        \* --n-workers
    mpc,              \* position of the main process in fetch_natgeo
    timerange,        \* the list _get_timerange returned
    timerange_split,  \* the shards computed from it
    \* the pool of worker processes
    workers,          \* the list of started processes (process ids 1, 2, ...)
    wargs,            \* per process, the index of the shard it was given
    wstate,           \* per process, where it is in _fetch_natgeo_range
    widx,             \* per process, the number of work items it has handled
    joined,           \* number of processes the join loop has waited for
    files,            \* the pairs <<filename, process>> of documents saved
    notice,           \* whether "Done Scraping!" was printed
    \* the sign-in pass of the main process and the cookie file
    cookie_file,      \* what config.cookie_path holds: "absent", "stale", "valid", "fresh"
    cookie_writes,    \* number of times the file was written
    cookie_readers,   \* the processes that read the file (0: the main process)
    page,             \* the main process's page: launched, the cookies added to
                      \* its context, and whether it is at the archive URL
    signin_state,     \* the local of _signin_save_cookies
    steps,            \* the sign-in sub-steps run so far, with their results
    otp_input,        \* whether the operator was asked for the one-time code
    \* one worker, _fetch_natgeo_range, in detail
    shard,            \* its timerange
    idx,              \* index in shard of the current work item (0: none yet)
    tries,            \* iterations the retry loop has begun for the item
    wpc,              \* position of the worker
    n_pages,          \* page count read from the DOM
    canvas_id,        \* loop variable of the spread loop
    c,                \* the pages shown on the reportlab canvas so far
    pbar,             \* progress units of the tqdm bar
    cover_data,       \* locals of _download_article
    left_data,
    right_data,
    cap,              \* the running call of _fetch_canvas_imagedata
    attempts,         \* per item, calls of _download_article made
    outcome,          \* per item, "none", "saved" or "skipped"
    trail,            \* what the current call of _download_article did to the
                      \* page, in order: waits, clicks, captures and their results
    cover_raises      \* calls for the current item that raised at the cover

rangeVars == <<date_start, date_end, n_workers, mpc, timerange, timerange_split>>
poolVars  == <<workers, wargs, wstate, widx, joined, files, notice>>
issueVars == <<shard, idx, tries, wpc, n_pages, canvas_id, c, pbar,
               cover_data, left_data, right_data, cap, attempts, outcome,
               trail, cover_raises>>
signinVars == <<cookie_file, cookie_writes, cookie_readers, page, signin_state,
                steps, otp_input>>
vars == <<rangeVars, poolVars, signinVars, issueVars>>

Min(a, b) == IF a <= b THEN a ELSE b
Max(a, b) == IF a >= b THEN a ELSE b

\* ------------------------------------------------- dates and the time range

\* the years a date input is drawn from: the valid ones and both rejected edges
YearInputs == {1887, 2100} \cup (FirstYear .. FirstYear + MaxYears - 1)
\* the months a date input is drawn from (1-based, as typed): 0 and 13 are rejected
MonthInputs == 0 .. 13
DateInputs == [mm : MonthInputs, yyyy : YearInputs]

\* _format_date: (year, zero-based month) of MM-YYYY, or the assertion's failure
_format_date(d) ==
    LET month == d.mm - 1
        year  == d.yyyy
    IN  IF ~(month >= 0 /\ month < 12) THEN [ok |-> FALSE]
        ELSE IF ~(year > 1887 /\ year < 2100) THEN [ok |-> FALSE]
        ELSE [ok |-> TRUE, year |-> year, month |-> month]

\* the two assertions of _get_timerange on the parsed dates
RangeAsserts(s, e) ==
    /\ s.year <= e.year
    /\ s.month <= e.month

\* _get_timerange: the list of (month, year), or the failure of an assertion
_get_timerange(ds, de) ==
    LET s == _format_date(ds)
        e == _format_date(de)
    IN  IF ~s.ok \/ ~e.ok THEN [ok |-> FALSE, list |-> <<>>]
        ELSE IF ~RangeAsserts(s, e) THEN [ok |-> FALSE, list |-> <<>>]
        ELSE LET total_months == (e.year - s.year) * 12 + (e.month - s.month)
             IN  [ok   |-> TRUE,
                  list |-> [k \in 1 .. total_months + 1 |->
                              << (s.month + (k - 1)) % 12,
                                 s.year + ((s.month + (k - 1)) \div 12) >>]]

\* Python's s[a:b] for 0 <= a, 0 <= b
PySlice(s, a, b) ==
    LET lo == Min(a, Len(s))
        hi == Min(b, Len(s))
    IN  IF lo >= hi THEN <<>> ELSE SubSeq(s, lo + 1, hi)

\* the slice start without the remainder term
ShardLoNoRemainder(i, avg_size, remainder) == i * avg_size

\* the slice bounds of shard i (0-based) in the list comprehension of fetch_natgeo
ShardLo(i, avg_size, remainder) == i * avg_size + Min(i, remainder)

ShardHi(i, avg_size, remainder) == (i + 1) * avg_size + Min(i + 1, remainder)

\* timerange_split of fetch_natgeo, as a sequence indexed 1..n of shards
Partition(tr, n) ==
    LET avg_size  == Len(tr) \div n
        remainder == Len(tr) % n
    IN  [j \in 1 .. n |->
           PySlice(tr, ShardLo(j - 1, avg_size, remainder),
                       ShardHi(j - 1, avg_size, remainder))]

\* the output file of an issue: natgeo-<year>-<month+1:02d>.pdf, as the year
\* and the two decimal digits of the month
Filename(year, month) ==
    << year, (month + 1) \div 10, (month + 1) % 10 >>

\* ------------------------------------------------------ the main process

\* what _load_signin_cookies does to the cookie file while it also saves it
LoadRewritesCookies(file) ==
    [read |-> file # "absent", file |-> "fresh", writes |-> 1]

\* what _load_signin_cookies does to the cookie file: read it if it is there
LoadCookieFile(file) ==
    [read |-> file # "absent", file |-> file, writes |-> 0]

\* the first half of the with block of fetch_natgeo: launch the browser, open a
\* page, _load_signin_cookies: add the file's cookies, goto the archive, close
\* the cookie banner. Cookies that are still valid put the page at the
\* archive; goto may raise
LoadSigninCookies ==
    /\ mpc = "preflight"
    /\ LET l == LoadCookieFile(cookie_file)
       IN  /\ cookie_file' = l.file
           /\ cookie_writes' = cookie_writes + l.writes
           /\ cookie_readers' = IF l.read THEN cookie_readers \cup {0} ELSE cookie_readers
           /\ \E raised \in BOOLEAN :
                /\ mpc' = IF raised THEN "crashed" ELSE "click"
                /\ page' = [launched |-> TRUE,
                            cookies |-> IF l.read THEN cookie_file ELSE "none",
                            at_archive |-> ~raised /\ l.read /\ cookie_file = "valid"]
    /\ UNCHANGED <<date_start, date_end, n_workers, timerange, timerange_split>>
    /\ UNCHANGED <<signin_state, steps, otp_input, poolVars, issueVars>>

\* signin_state = _signin_click_button(page, config): True and the login page
\* opens, or False on a timeout
SigninClickButton ==
    /\ mpc = "click"
    /\ \E ok \in BOOLEAN :
         /\ signin_state' = ok
         /\ steps' = Append(steps, [step |-> "click", ok |-> ok])
         /\ page' = IF ok THEN [page EXCEPT !.at_archive = FALSE] ELSE page
    /\ mpc' = "wait_early"
    /\ UNCHANGED <<date_start, date_end, n_workers, timerange, timerange_split>>
    /\ UNCHANGED <<cookie_file, cookie_writes, cookie_readers, otp_input, poolVars, issueVars>>

\* page.wait_for_url on the archive prefix: it returns when the page is
\* there or gets there within the timeout, and times out otherwise
WaitForUrl(pg, arrives) == pg.at_archive \/ arrives

\* signin_state after the first wait_for_url without the assignment in its try
StateKept(reached, state) == state

\* signin_state after the first wait_for_url: cleared when the archive was
\* reached, as it was when the wait timed out
StateAfterEarlyWait(reached, state) == IF reached THEN FALSE ELSE state

\* wait_for_timeout, then the first wait_for_url: reaching the archive clears
\* signin_state, the timeout is passed over
SigninWaitEarly ==
    /\ mpc = "wait_early"
    /\ \E arrives \in BOOLEAN :
         LET reached == WaitForUrl(page, arrives)
         IN  /\ page' = [page EXCEPT !.at_archive = reached]
             /\ signin_state' = StateAfterEarlyWait(reached, signin_state)
    /\ mpc' = "email"
    /\ UNCHANGED <<date_start, date_end, n_workers, timerange, timerange_split>>
    /\ UNCHANGED <<cookie_file, cookie_writes, cookie_readers, steps, otp_input,
                   poolVars, issueVars>>

\* the guard of the three `if signin_state:` statements, dropped
GateOpen(state) == state \/ ~state

\* the guard of the three `if signin_state:` statements
Gate(state) == state

\* if signin_state: signin_state = _signin_fill_email(page, config)
SigninFillEmail ==
    /\ mpc = "email"
    /\ IF Gate(signin_state)
       THEN \E ok \in BOOLEAN :
              /\ signin_state' = ok
              /\ steps' = Append(steps, [step |-> "email", ok |-> ok])
       ELSE UNCHANGED <<signin_state, steps>>
    /\ mpc' = "password"
    /\ UNCHANGED <<date_start, date_end, n_workers, timerange, timerange_split>>
    /\ UNCHANGED <<cookie_file, cookie_writes, cookie_readers, page, otp_input,
                   poolVars, issueVars>>

\* if signin_state: signin_state = _signin_fill_password(page, config)
SigninFillPassword ==
    /\ mpc = "password"
    /\ IF Gate(signin_state)
       THEN \E ok \in BOOLEAN :
              /\ signin_state' = ok
              /\ steps' = Append(steps, [step |-> "password", ok |-> ok])
       ELSE UNCHANGED <<signin_state, steps>>
    /\ mpc' = "otp"
    /\ UNCHANGED <<date_start, date_end, n_workers, timerange, timerange_split>>
    /\ UNCHANGED <<cookie_file, cookie_writes, cookie_readers, page, otp_input,
                   poolVars, issueVars>>

\* the ways _signin_fill_otp ends: the first fill times out before the operator
\* is asked; the operator's answer has fewer than 6 characters and indexing it
\* raises IndexError, which is not caught; a later fill or the submit times
\* out; or all six slots are filled and submitted
OtpEndings == {"timeout_before_input", "short_input", "timeout_after_input", "ok"}

\* if signin_state: signin_state = _signin_fill_otp(page, config)
SigninFillOtp ==
    /\ mpc = "otp"
    /\ IF Gate(signin_state)
       THEN \E e \in OtpEndings :
              /\ otp_input' = (e # "timeout_before_input")
              /\ IF e = "short_input"
                 THEN /\ mpc' = "crashed"
                      /\ steps' = Append(steps, [step |-> "otp", ok |-> FALSE])
                      /\ UNCHANGED signin_state
                 ELSE /\ mpc' = "final"
                      /\ signin_state' = (e = "ok")
                      /\ steps' = Append(steps, [step |-> "otp", ok |-> e = "ok"])
       ELSE /\ mpc' = "final"
            /\ UNCHANGED <<signin_state, steps, otp_input>>
    /\ UNCHANGED <<date_start, date_end, n_workers, timerange, timerange_split>>
    /\ UNCHANGED <<cookie_file, cookie_writes, cookie_readers, page, poolVars, issueVars>>

\* the end of _signin_save_cookies with the cookies saved whatever the wait says
PersistAlways(reached) ==
    [pc |-> IF reached THEN "timerange" ELSE "auth_error", write |-> TRUE]

\* the end of _signin_save_cookies: the RuntimeError with the remediation
\* message when the last wait_for_url timed out, else the cookies are dumped
\* to config.cookie_path and fetch_natgeo goes on
Persist(reached) ==
    [pc |-> IF reached THEN "timerange" ELSE "auth_error", write |-> reached]

\* the second wait_for_url and what follows it
SigninFinal ==
    /\ mpc = "final"
    /\ \E arrives \in BOOLEAN :
         LET reached == WaitForUrl(page, arrives)
             r       == Persist(reached)
         IN  /\ page' = [page EXCEPT !.at_archive = reached]
             /\ mpc' = r.pc
             /\ cookie_file' = IF r.write THEN "fresh" ELSE cookie_file
             /\ cookie_writes' = IF r.write THEN cookie_writes + 1 ELSE cookie_writes
    /\ UNCHANGED <<date_start, date_end, n_workers, timerange, timerange_split>>
    /\ UNCHANGED <<cookie_readers, signin_state, steps, otp_input, poolVars, issueVars>>

\* timerange = _get_timerange(date_start, date_end)
GetTimerange ==
    /\ mpc = "timerange"
    /\ LET r == _get_timerange(date_start, date_end)
       IN  /\ mpc' = IF r.ok THEN "partition" ELSE "input_error"
           /\ timerange' = r.list
    /\ UNCHANGED <<date_start, date_end, n_workers, timerange_split>>
    /\ UNCHANGED <<poolVars, signinVars, issueVars>>

\* avg_size, remainder and the list comprehension building timerange_split
PartitionStep ==
    /\ mpc = "partition"
    /\ timerange_split' = Partition(timerange, n_workers)
    /\ mpc' = "start"
    /\ UNCHANGED <<date_start, date_end, n_workers, timerange>>
    /\ UNCHANGED <<poolVars, signinVars, issueVars>>

\* timerange_split[0] handed to every process
StartArgsFirstShard(i) == (0 * i) + 1

\* the shard index the i-th pass (0-based) of the start loop hands over:
\* timerange_split[i], counted from 1
StartArgs(i) == i + 1

\* one pass of the first loop: create the process on its shard, append, start
StartWorker ==
    /\ mpc = "start"
    /\ Len(workers) < n_workers
    /\ LET p == Len(workers) + 1
       IN  /\ workers' = Append(workers, p)
           /\ wargs'   = [wargs EXCEPT ![p] = StartArgs(p - 1)]
           /\ wstate'  = [wstate EXCEPT ![p] = "started"]
    /\ UNCHANGED <<rangeVars, widx, joined, files, notice, issueVars, signinVars>>

\* the first loop is exhausted
StartDone ==
    /\ mpc = "start"
    /\ Len(workers) = n_workers
    /\ mpc' = "join"
    /\ UNCHANGED <<date_start, date_end, n_workers, timerange, timerange_split>>
    /\ UNCHANGED <<poolVars, signinVars, issueVars>>

\* a join that does not wait
JoinReturnsAtOnce(p) == TRUE

\* whether p.join() returns: process p has terminated
JoinReturns(p) == wstate[p] = "terminated"

\* one pass of the second loop: p.join()
JoinWorker ==
    /\ mpc = "join"
    /\ joined < Len(workers)
    /\ JoinReturns(workers[joined + 1])
    /\ joined' = joined + 1
    /\ UNCHANGED <<rangeVars, workers, wargs, wstate, widx, files, notice, issueVars, signinVars>>

\* print("Done Scraping!")
PrintDone ==
    /\ mpc = "join"
    /\ joined = Len(workers)
    /\ notice' = TRUE
    /\ mpc' = "done"
    /\ UNCHANGED <<date_start, date_end, n_workers, timerange, timerange_split>>
    /\ UNCHANGED <<workers, wargs, wstate, widx, joined, files, issueVars, signinVars>>

\* ---------------------------------------------- a worker process of the pool

\* the timerange argument of process p
ArgRange(p) == timerange_split[wargs[p]]

\* _fetch_natgeo_range up to its loop: launch the browser, load the cookies,
\* open the archive; an exception here ends the process
WorkerLaunch(p) ==
    /\ wstate[p] = "started"
    /\ LET l == LoadCookieFile(cookie_file)
       IN  /\ cookie_file' = l.file
           /\ cookie_writes' = cookie_writes + l.writes
           /\ cookie_readers' = IF l.read THEN cookie_readers \cup {p} ELSE cookie_readers
    /\ \E raised \in BOOLEAN :
         wstate' = [wstate EXCEPT ![p] = IF raised THEN "terminated" ELSE "working"]
    /\ UNCHANGED <<rangeVars, workers, wargs, widx, joined, files, notice, issueVars>>
    /\ UNCHANGED <<page, signin_state, steps, otp_input>>

\* one pass of the loop of _fetch_natgeo_range: _download_articel_retry either
\* saved the document of the item or gave the item up
WorkerItem(p) ==
    /\ wstate[p] = "working"
    /\ widx[p] < Len(ArgRange(p))
    /\ LET item  == ArgRange(p)[widx[p] + 1]
           month == item[1]
           year  == item[2]
       IN  \E saved \in BOOLEAN :
             files' = IF saved THEN files \cup {<<Filename(year, month), p>>}
                      ELSE files
    /\ widx' = [widx EXCEPT ![p] = @ + 1]
    /\ UNCHANGED <<rangeVars, workers, wargs, wstate, joined, notice, issueVars, signinVars>>

\* the loop is exhausted: browser.close() and the process ends
WorkerClose(p) ==
    /\ wstate[p] = "working"
    /\ widx[p] = Len(ArgRange(p))
    /\ wstate' = [wstate EXCEPT ![p] = "terminated"]
    /\ UNCHANGED <<rangeVars, workers, wargs, widx, joined, files, notice, issueVars, signinVars>>

\* ------------------------------------------- one worker, canvas by canvas

\* the absent capture: None
Absent == [none |-> TRUE]

\* the PNG a canvas extraction can return, by its pixel size; paste lists what
\* was pasted into an image built by _combine_canvas_sidebyside
CanvasImages == [w : 1 .. MaxDim, h : 1 .. MaxDim, paste : {<<>>}]

\* no call of _fetch_canvas_imagedata is running or has ended
NoCall == [st |-> "none", id |-> 0, slot |-> "none", iter |-> 0, evals |-> 0,
           waits |-> 0, result |-> Absent]

\* the loop header of _fetch_canvas_imagedata after `done` iterations: the next
\* iteration begins with _zoom_page, or the loop is exhausted and None returned
CapHeader(cp, done) ==
    IF done < retries
    THEN [cp EXCEPT !.st = "zoom", !.iter = done + 1]
    ELSE [cp EXCEPT !.st = "returned", !.result = Absent]

\* a call _fetch_canvas_imagedata(config, page, id) whose result goes to slot
CallCapture(id, slot) ==
    CapHeader([st |-> "none", id |-> id, slot |-> slot, iter |-> 0, evals |-> 0,
               waits |-> 0, result |-> Absent], 0)

\* where an exception raised inside _download_article lands while the
\* propagating handler is broken: nothing catches it and the process ends
RaiseTargetUncaught == "crashed"

\* where an exception raised inside _download_article lands: the bare except
\* of _download_articel_retry, that is the next pass of its loop
RaiseTarget == "retry"

\* _combine_canvas_sidebyside with the height of the left image only
CombineLeftHeight(l, r) ==
    IF l = Absent \/ r = Absent THEN [ok |-> FALSE]
    ELSE [ok  |-> TRUE,
          img |-> [w |-> l.w + r.w, h |-> l.h,
                   paste |-> << [x |-> 0, y |-> 0, img |-> l],
                                [x |-> l.w, y |-> 0, img |-> r] >>]]

\* _combine_canvas_sidebyside: Image.open raises on data that is no image
_combine_canvas_sidebyside(l, r) ==
    IF l = Absent \/ r = Absent THEN [ok |-> FALSE]
    ELSE [ok  |-> TRUE,
          img |-> [w |-> l.w + r.w, h |-> Max(l.h, r.h),
                   paste |-> << [x |-> 0, y |-> 0, img |-> l],
                                [x |-> l.w, y |-> 0, img |-> r] >>]]

\* __add_to_canvas showing an empty page for data that is no image
AddToCanvasBlank(img) ==
    IF img = Absent THEN [ok |-> TRUE, page |-> [size |-> <<0, 0>>, img |-> img]]
    ELSE [ok |-> TRUE, page |-> [size |-> <<img.w, img.h>>, img |-> img]]

\* __add_to_canvas: the page shown, sized as the image, or Image.open's raise
AddToCanvas(img) ==
    IF img = Absent THEN [ok |-> FALSE]
    ELSE [ok |-> TRUE, page |-> [size |-> <<img.w, img.h>>, img |-> img]]

\* the branch `if right_data is None` counting two progress units
LeftAloneTwoUnits(l) ==
    LET a == AddToCanvas(l)
    IN  IF a.ok THEN [ok |-> TRUE, page |-> a.page, units |-> 2] ELSE [ok |-> FALSE]

\* the branch `if right_data is None`: the left capture alone, one unit
LeftAlone(l) ==
    LET a == AddToCanvas(l)
    IN  IF a.ok THEN [ok |-> TRUE, page |-> a.page, units |-> 1] ELSE [ok |-> FALSE]

\* the else branch: both captures combined, two units
BothSides(l, r) ==
    LET cmb == _combine_canvas_sidebyside(l, r)
        a   == IF cmb.ok THEN AddToCanvas(cmb.img) ELSE [ok |-> FALSE]
    IN  IF a.ok THEN [ok |-> TRUE, page |-> a.page, units |-> 2] ELSE [ok |-> FALSE]

\* _fetch_natgeo_range up to its loop: launch, new page, _load_signin_cookies
Launch ==
    /\ wpc = "launch"
    /\ \E raised \in BOOLEAN : wpc' = IF raised THEN "crashed" ELSE "items"
    /\ UNCHANGED <<shard, idx, tries, n_pages, canvas_id, c, pbar, cover_data,
                   left_data, right_data, cap, attempts, outcome>>
    /\ UNCHANGED <<trail, cover_raises>>
    /\ UNCHANGED <<rangeVars, poolVars, signinVars>>

\* for month, year in timerange: the next work item
NextItem ==
    /\ wpc = "items"
    /\ idx < Len(shard)
    /\ idx' = idx + 1
    /\ tries' = 0
    /\ wpc' = "retry"
    /\ UNCHANGED <<shard, n_pages, canvas_id, c, pbar, cover_data, left_data,
                   right_data, cap, attempts, outcome>>
    /\ cover_raises' = 0
    /\ UNCHANGED trail
    /\ UNCHANGED <<rangeVars, poolVars, signinVars>>

\* the loop over the timerange is exhausted: browser.close()
CloseBrowser ==
    /\ wpc = "items"
    /\ idx = Len(shard)
    /\ wpc' = "closed"
    /\ UNCHANGED <<shard, idx, tries, n_pages, canvas_id, c, pbar, cover_data,
                   left_data, right_data, cap, attempts, outcome>>
    /\ UNCHANGED <<trail, cover_raises>>
    /\ UNCHANGED <<rangeVars, poolVars, signinVars>>

\* for _ in range(config.retries): one more call of _download_article
RetryBegin ==
    /\ wpc = "retry"
    /\ tries < retries
    /\ tries' = tries + 1
    /\ attempts' = [attempts EXCEPT ![idx] = @ + 1]
    /\ wpc' = "navigate"
    /\ UNCHANGED <<shard, idx, n_pages, canvas_id, c, pbar, cover_data,
                   left_data, right_data, cap, outcome>>
    /\ trail' = <<>>
    /\ UNCHANGED cover_raises
    /\ UNCHANGED <<rangeVars, poolVars, signinVars>>

\* a retry loop that starts over when its passes are used up
GiveUpStartsOver ==
    /\ wpc = "retry"
    /\ tries >= retries
    /\ tries' = 0
    /\ UNCHANGED <<shard, idx, wpc, n_pages, canvas_id, c, pbar, cover_data,
                   left_data, right_data, cap, attempts, outcome>>
    /\ UNCHANGED <<trail, cover_raises>>
    /\ UNCHANGED <<rangeVars, poolVars, signinVars>>

\* the retry loop is exhausted: "Skipping ... due to Error!", return False
GiveUp ==
    /\ wpc = "retry"
    /\ tries >= retries
    /\ outcome' = [outcome EXCEPT ![idx] = "skipped"]
    /\ wpc' = "items"
    /\ UNCHANGED <<shard, idx, tries, n_pages, canvas_id, c, pbar, cover_data,
                   left_data, right_data, cap, attempts>>
    /\ UNCHANGED <<trail, cover_raises>>
    /\ UNCHANGED <<rangeVars, poolVars, signinVars>>

\* the events of a call of _download_article that the trail records
Idle == [ev |-> "idle", id |-> 0]
Advance == [ev |-> "advance", id |-> 0]
Requested(id) == [ev |-> "capture", id |-> id]
Returned(id, result) ==
    [ev |-> IF result = Absent THEN "absent" ELSE "present", id |-> id]

\* a document that goes on from the pages of the call before
KeptCanvas(old) == old

\* canvas.Canvas(output_path): a new document with no page, whatever the
\* document of an earlier call held
FreshCanvas(old) == <<>>

\* _download_article up to the cover: goto, the waits, fullscreen, the page
\* count, the progress bar, a fresh canvas, then the call capturing canvas 1;
\* any of the page interactions may raise
Navigate ==
    /\ wpc = "navigate"
    /\ \/ /\ wpc' = RaiseTarget
          /\ UNCHANGED <<n_pages, canvas_id, c, pbar, cover_data, left_data,
                         right_data, cap, trail>>
       \/ \E n \in 0 .. MaxPages :
            /\ n_pages' = n
            /\ canvas_id' = 0
            /\ c' = FreshCanvas(c)
            /\ trail' = Append(trail, Requested(1))
            /\ pbar' = 0
            /\ cover_data' = Absent
            /\ left_data' = Absent
            /\ right_data' = Absent
            /\ cap' = CallCapture(1, "cover")
            /\ wpc' = "capture"
    /\ UNCHANGED <<shard, idx, tries, attempts, outcome>>
    /\ UNCHANGED cover_raises
    /\ UNCHANGED <<rangeVars, poolVars, signinVars>>

\* _zoom_page, outside the try of _fetch_canvas_imagedata: its click or its
\* wait may time out, and the exception leaves the capture
CapZoom ==
    /\ wpc = "capture"
    /\ cap.st = "zoom"
    /\ \/ /\ cap' = [cap EXCEPT !.st = "eval"]
          /\ wpc' = wpc
       \/ /\ cap' = [cap EXCEPT !.st = "raised"]
          /\ wpc' = RaiseTarget
    /\ UNCHANGED <<shard, idx, tries, n_pages, canvas_id, c, pbar, cover_data,
                   left_data, right_data, attempts, outcome>>
    /\ UNCHANGED <<trail, cover_raises>>
    /\ UNCHANGED <<rangeVars, poolVars, signinVars>>

\* the try block: page.evaluate and b64decode; on success the bytes are
\* returned, on any failure the except clause is entered
CapEval ==
    /\ wpc = "capture"
    /\ cap.st = "eval"
    /\ \/ \E img \in CanvasImages :
            cap' = [cap EXCEPT !.st = "returned", !.evals = @ + 1, !.result = img]
       \/ cap' = [cap EXCEPT !.st = "wait", !.evals = @ + 1]
    /\ UNCHANGED <<shard, idx, tries, wpc, n_pages, canvas_id, c, pbar,
                   cover_data, left_data, right_data, attempts, outcome>>
    /\ UNCHANGED <<trail, cover_raises>>
    /\ UNCHANGED <<rangeVars, poolVars, signinVars>>

\* the except clause: page.wait_for_timeout(config.retry_wait), then the loop
CapWait ==
    /\ wpc = "capture"
    /\ cap.st = "wait"
    /\ cap' = CapHeader([cap EXCEPT !.waits = @ + 1], cap.iter)
    /\ UNCHANGED <<shard, idx, tries, wpc, n_pages, canvas_id, c, pbar,
                   cover_data, left_data, right_data, attempts, outcome>>
    /\ UNCHANGED <<trail, cover_raises>>
    /\ UNCHANGED <<rangeVars, poolVars, signinVars>>

\* the call returns into _download_article: cover_data, left_data or
\* right_data is assigned; after left_data the right canvas is requested
CapReturn ==
    /\ wpc = "capture"
    /\ cap.st = "returned"
    /\ \/ /\ cap.slot = "cover"
          /\ cover_data' = cap.result
          /\ wpc' = "add_cover"
          /\ trail' = Append(trail, Returned(cap.id, cap.result))
          /\ UNCHANGED <<left_data, right_data, cap>>
       \/ /\ cap.slot = "left"
          /\ left_data' = cap.result
          /\ cap' = CallCapture(canvas_id + 1, "right")
          /\ trail' = trail \o <<Returned(cap.id, cap.result),
                                 Requested(canvas_id + 1)>>
          /\ wpc' = "capture"
          /\ UNCHANGED <<cover_data, right_data>>
       \/ /\ cap.slot = "right"
          /\ right_data' = cap.result
          /\ wpc' = "assemble"
          /\ trail' = Append(trail, Returned(cap.id, cap.result))
          /\ UNCHANGED <<cover_data, left_data, cap>>
    /\ UNCHANGED <<shard, idx, tries, n_pages, canvas_id, c, pbar, attempts, outcome>>
    /\ UNCHANGED cover_raises
    /\ UNCHANGED <<rangeVars, poolVars, signinVars>>

\* __add_to_canvas(cover_data); pbar.update(1)
AddCover ==
    /\ wpc = "add_cover"
    /\ LET a == AddToCanvas(cover_data)
       IN  IF a.ok
           THEN /\ c' = Append(c, a.page)
                /\ pbar' = pbar + 1
                /\ wpc' = "spread"
                /\ UNCHANGED cover_raises
           ELSE /\ wpc' = RaiseTarget
                /\ cover_raises' = cover_raises + 1
                /\ UNCHANGED <<c, pbar>>
    /\ UNCHANGED <<shard, idx, tries, n_pages, canvas_id, cover_data, left_data,
                   right_data, cap, attempts, outcome>>
    /\ UNCHANGED trail
    /\ UNCHANGED <<rangeVars, poolVars, signinVars>>

\* the spread loop as range(1, n_pages + 1, 2)
NextCanvasFromOne == IF canvas_id = 0 THEN 1 ELSE canvas_id + 2

\* the value range(2, n_pages + 1, 2) yields after canvas_id (0: before the loop)
NextCanvas == IF canvas_id = 0 THEN 2 ELSE canvas_id + 2

\* one pass of the spread loop up to the first capture: wait for network
\* idle, click nextPage (either may raise), request the left canvas
SpreadAdvance ==
    /\ wpc = "spread"
    /\ NextCanvas < n_pages + 1
    /\ \/ /\ wpc' = RaiseTarget
          /\ \/ trail' = trail
             \/ trail' = Append(trail, Idle)
          /\ UNCHANGED <<canvas_id, cap>>
       \/ /\ canvas_id' = NextCanvas
          /\ cap' = CallCapture(NextCanvas, "left")
          /\ trail' = trail \o <<Idle, Advance, Requested(NextCanvas)>>
          /\ wpc' = "capture"
    /\ UNCHANGED <<shard, idx, tries, n_pages, c, pbar, cover_data, left_data,
                   right_data, attempts, outcome>>
    /\ UNCHANGED cover_raises
    /\ UNCHANGED <<rangeVars, poolVars, signinVars>>

\* the rest of the pass: the message when left_data is None, then
\* `if right_data is None` / else
Assemble ==
    /\ wpc = "assemble"
    /\ LET r == IF right_data = Absent THEN LeftAlone(left_data)
                ELSE BothSides(left_data, right_data)
       IN  IF r.ok
           THEN /\ c' = Append(c, r.page)
                /\ pbar' = pbar + r.units
                /\ wpc' = "spread"
           ELSE /\ wpc' = RaiseTarget
                /\ UNCHANGED <<c, pbar>>
    /\ UNCHANGED <<shard, idx, tries, n_pages, canvas_id, cover_data, left_data,
                   right_data, cap, attempts, outcome>>
    /\ UNCHANGED <<trail, cover_raises>>
    /\ UNCHANGED <<rangeVars, poolVars, signinVars>>

\* the spread loop is exhausted: c.save() (which may raise), pbar.close(),
\* and _download_articel_retry returns True
Save ==
    /\ wpc = "spread"
    /\ ~(NextCanvas < n_pages + 1)
    /\ \/ /\ wpc' = RaiseTarget
          /\ UNCHANGED outcome
       \/ /\ outcome' = [outcome EXCEPT ![idx] = "saved"]
          /\ wpc' = "items"
    /\ UNCHANGED <<shard, idx, tries, n_pages, canvas_id, c, pbar, cover_data,
                   left_data, right_data, cap, attempts>>
    /\ UNCHANGED <<trail, cover_raises>>
    /\ UNCHANGED <<rangeVars, poolVars, signinVars>>

\* process 1 of the pool begins its target, _fetch_natgeo_range, on the
\* shard it was started with
RunTarget ==
    /\ wstate[1] = "started"
    /\ wpc = "idle"
    /\ wstate' = [wstate EXCEPT ![1] = "working"]
    /\ shard' = ArgRange(1)
    /\ attempts' = [i \in 1 .. Len(ArgRange(1)) |-> 0]
    /\ outcome' = [i \in 1 .. Len(ArgRange(1)) |-> "none"]
    /\ wpc' = "launch"
    /\ UNCHANGED <<idx, tries, n_pages, canvas_id, c, pbar, cover_data,
                   left_data, right_data, cap, trail, cover_raises>>
    /\ UNCHANGED <<rangeVars, workers, wargs, widx, joined, files, notice, signinVars>>

\* _fetch_natgeo_range has returned or let an exception out: process 1 ends
ExitTarget ==
    /\ wstate[1] = "working"
    /\ wpc \in {"closed", "crashed"}
    /\ wstate' = [wstate EXCEPT ![1] = "terminated"]
    /\ UNCHANGED <<rangeVars, workers, wargs, widx, joined, files, notice,
                   signinVars, issueVars>>

\* ------------------------------------------------------- specifications

PoolIdle ==
    /\ workers = <<>>
    /\ wargs   = [p \in 1 .. MaxWorkers |-> 0]
    /\ wstate  = [p \in 1 .. MaxWorkers |-> "unstarted"]
    /\ widx    = [p \in 1 .. MaxWorkers |-> 0]
    /\ joined  = 0
    /\ files   = {}
    /\ notice  = FALSE

\* before the sign-in pass; the cookie file is as an earlier run left it
SigninStart ==
    /\ cookie_file \in {"absent", "stale", "valid"}
    /\ cookie_writes = 0
    /\ cookie_readers = {}
    /\ page = [launched |-> FALSE, cookies |-> "none", at_archive |-> FALSE]
    /\ signin_state = FALSE
    /\ steps = <<>>
    /\ otp_input = FALSE

\* the sign-in pass is not part of the run
SigninIdle ==
    /\ cookie_file = "fresh"
    /\ cookie_writes = 0
    /\ cookie_readers = {}
    /\ page = [launched |-> FALSE, cookies |-> "none", at_archive |-> FALSE]
    /\ signin_state = FALSE
    /\ steps = <<>>
    /\ otp_input = FALSE

IssueIdle ==
    /\ shard = <<>>
    /\ idx = 0
    /\ tries = 0
    /\ wpc = "idle"
    /\ n_pages = 0
    /\ canvas_id = 0
    /\ c = <<>>
    /\ pbar = 0
    /\ cover_data = Absent
    /\ left_data = Absent
    /\ right_data = Absent
    /\ cap = NoCall
    /\ attempts = <<>>
    /\ outcome = <<>>
    /\ trail = <<>>
    /\ cover_raises = 0

\* _get_timerange and the partition on every pair of date inputs
InitRange ==
    /\ date_start \in DateInputs
    /\ date_end \in DateInputs
    /\ n_workers \in 1 .. MaxWorkers
    /\ mpc = "timerange"
    /\ timerange = <<>>
    /\ timerange_split = <<>>
    /\ PoolIdle
    /\ SigninIdle
    /\ IssueIdle

NextRange == GetTimerange \/ PartitionStep

SpecRange == InitRange /\ [][NextRange]_vars

\* the twelve months of one year, from which the worker's shard is cut
BaseRange ==
    _get_timerange([mm |-> 1, yyyy |-> FirstYear], [mm |-> 12, yyyy |-> FirstYear]).list

\* one worker process on a shard of up to MaxShard items
InitIssue ==
    /\ date_start = [mm |-> 1, yyyy |-> FirstYear]
    /\ date_end = [mm |-> 12, yyyy |-> FirstYear]
    /\ n_workers = 1
    /\ mpc = "idle"
    /\ timerange = <<>>
    /\ timerange_split = <<>>
    /\ PoolIdle
    /\ SigninIdle
    /\ shard \in {SubSeq(BaseRange, 1, k) : k \in 0 .. MaxShard}
    /\ idx = 0
    /\ tries = 0
    /\ wpc = "launch"
    /\ n_pages = 0
    /\ canvas_id = 0
    /\ c = <<>>
    /\ pbar = 0
    /\ cover_data = Absent
    /\ left_data = Absent
    /\ right_data = Absent
    /\ cap = NoCall
    /\ attempts = [i \in 1 .. Len(shard) |-> 0]
    /\ outcome = [i \in 1 .. Len(shard) |-> "none"]
    /\ trail = <<>>
    /\ cover_raises = 0

NextIssue ==
    \/ Launch
    \/ NextItem
    \/ CloseBrowser
    \/ RetryBegin
    \/ GiveUp
    \/ Navigate
    \/ CapZoom
    \/ CapEval
    \/ CapWait
    \/ CapReturn
    \/ AddCover
    \/ SpreadAdvance
    \/ Assemble
    \/ Save

SpecIssue == InitIssue /\ [][NextIssue]_vars

\* the pool from its first loop on, over a range of up to MaxShard months
\* and with up to MaxRunWorkers processes: process 1 is followed canvas by
\* canvas, the others item by item
InitRun ==
    /\ date_start = [mm |-> 1, yyyy |-> FirstYear]
    /\ date_end \in [mm : 1 .. MaxShard, yyyy : {FirstYear}]
    /\ n_workers \in 1 .. MaxRunWorkers
    /\ mpc = "start"
    /\ timerange = _get_timerange(date_start, date_end).list
    /\ timerange_split = Partition(timerange, n_workers)
    /\ PoolIdle
    /\ SigninIdle
    /\ IssueIdle

NextRun ==
    \/ StartWorker
    \/ StartDone
    \/ JoinWorker
    \/ PrintDone
    \/ RunTarget
    \/ ExitTarget
    \/ NextIssue
    \/ \E p \in 2 .. MaxRunWorkers : WorkerLaunch(p)
    \/ \E p \in 2 .. MaxRunWorkers : WorkerItem(p)
    \/ \E p \in 2 .. MaxRunWorkers : WorkerClose(p)

\* every page interaction returns or times out, so a step that can be taken
\* is taken
SpecRun == InitRun /\ [][NextRun]_vars /\ WF_vars(NextRun)

\* the date inputs of a run of the pool: the first months of one year (month 0
\* is rejected by _format_date)
PoolDateInputs == [mm : 0 .. MaxPoolMonth, yyyy : {FirstYear}]

\* a run of fetch_natgeo
Init ==
    /\ date_start \in PoolDateInputs
    /\ date_end \in PoolDateInputs
    /\ n_workers \in 1 .. MaxWorkers
    /\ mpc = "preflight"
    /\ timerange = <<>>
    /\ timerange_split = <<>>
    /\ PoolIdle
    /\ SigninStart
    /\ IssueIdle

Next ==
    \/ LoadSigninCookies
    \/ SigninClickButton
    \/ SigninWaitEarly
    \/ SigninFillEmail
    \/ SigninFillPassword
    \/ SigninFillOtp
    \/ SigninFinal
    \/ GetTimerange
    \/ PartitionStep
    \/ StartWorker
    \/ StartDone
    \/ JoinWorker
    \/ PrintDone
    \/ \E p \in 1 .. MaxWorkers : WorkerLaunch(p)
    \/ \E p \in 1 .. MaxWorkers : WorkerItem(p)
    \/ \E p \in 1 .. MaxWorkers : WorkerClose(p)

Spec == Init /\ [][Next]_vars

\* ------------------------------------------------------------------ claims

\* a date input _format_date accepts
ValidDate(d) == d.mm >= 1 /\ d.mm <= 12 /\ d.yyyy > 1887 /\ d.yyyy < 2100
\* months since year 0 of a date input
Ordinal(d) == d.yyyy * 12 + (d.mm - 1)
\* months since year 0 of a (month, year) item
ItemOrdinal(it) == it[2] * 12 + it[1]

\* C1: for every pair of valid dates with start <= end as (year, month),
\* _get_timerange returns without error the list of all months from start to
\* end: its length is the inclusive month difference, it begins at start, ends
\* at end, and each item is the month after the one before.
C1_TimeRangeOfEveryOrderedPair ==
    (/\ mpc # "timerange"
     /\ ValidDate(date_start) /\ ValidDate(date_end)
     /\ Ordinal(date_start) <= Ordinal(date_end))
    => /\ mpc # "input_error"
       /\ Len(timerange) = Ordinal(date_end) - Ordinal(date_start) + 1
       /\ ItemOrdinal(timerange[1]) = Ordinal(date_start)
       /\ ItemOrdinal(timerange[Len(timerange)]) = Ordinal(date_end)
       /\ \A k \in 1 .. Len(timerange) :
            /\ timerange[k][1] \in 0 .. 11
            /\ k > 1 => ItemOrdinal(timerange[k]) = ItemOrdinal(timerange[k - 1]) + 1

\* the size the claim gives shard j (1-based) of a range of length L
ClaimedSize(j, L, N) == (L \div N) + (IF j <= L % N THEN 1 ELSE 0)

RECURSIVE ClaimedOffset(_, _, _)
ClaimedOffset(j, L, N) ==
    IF j = 1 THEN 0 ELSE ClaimedOffset(j - 1, L, N) + ClaimedSize(j - 1, L, N)

RECURSIVE ConcatUpTo(_, _)
ConcatUpTo(split, j) ==
    IF j = 0 THEN <<>> ELSE ConcatUpTo(split, j - 1) \o split[j]

ItemsOf(s) == {s[k] : k \in 1 .. Len(s)}

\* C2: the partition has exactly n_workers shards, each the contiguous slice
\* of the range that follows the previous one, the first (L mod N) of size
\* floor(L/N)+1 and the others floor(L/N), sizes summing to L and differing
\* by at most 1, pairwise disjoint, and concatenating to the range.
C2_PartitionContract ==
    mpc = "start" =>
      LET L == Len(timerange)
          N == n_workers
      IN  /\ Len(timerange_split) = N
          /\ \A j \in 1 .. N :
               /\ Len(timerange_split[j]) = ClaimedSize(j, L, N)
               /\ \A k \in 1 .. Len(timerange_split[j]) :
                    timerange_split[j][k] = timerange[ClaimedOffset(j, L, N) + k]
          /\ ClaimedOffset(N, L, N) + ClaimedSize(N, L, N) = L
          /\ \A i, j \in 1 .. N :
               /\ Len(timerange_split[i]) - Len(timerange_split[j]) \in {-1, 0, 1}
               /\ i # j => ItemsOf(timerange_split[i]) \cap ItemsOf(timerange_split[j]) = {}
          /\ ConcatUpTo(timerange_split, N) = timerange

\* a range that does not divide evenly, with more items than workers
C2_Witness ==
    /\ mpc = "start"
    /\ n_workers >= 2
    /\ Len(timerange) > n_workers
    /\ Len(timerange) % n_workers # 0

\* C9: "Done Scraping!" is printed only once every one of the n_workers
\* processes was started and has terminated, and each shard is the argument
\* of at most one process, of exactly one once the start loop is over.
C9_NoticeAfterAllWorkers ==
    /\ notice => /\ Len(workers) = n_workers
                 /\ \A p \in 1 .. n_workers : wstate[p] = "terminated"
    /\ \A j \in 1 .. n_workers :
         LET given == {p \in 1 .. Len(workers) : wargs[p] = j}
         IN  /\ Cardinality(given) <= 1
             /\ mpc \in {"join", "done"} => Cardinality(given) = 1

\* the notice was printed after several workers ran and saved documents
C9_Witness ==
    /\ notice
    /\ n_workers >= 2
    /\ \E a, b \in files : a[2] # b[2]

\* over the years of the model and the twelve 0-based months, equal filenames
\* come from equal (year, month)
FilenameDetermines ==
    \A y1, y2 \in FirstYear .. FirstYear + MaxYears - 1 :
      \A m1, m2 \in 0 .. 11 :
        Filename(y1, m1) = Filename(y2, m2) => (y1 = y2 /\ m1 = m2)

\* C10: no output filename is saved by two different processes; every work
\* item lies in exactly one shard; and the filename determines (year, month).
C10_NoSharedFilename ==
    /\ \A a, b \in files : a[1] = b[1] => a[2] = b[2]
    /\ mpc \in {"start", "join", "done"} =>
         \A k \in 1 .. Len(timerange) :
           Cardinality({j \in 1 .. n_workers :
                          timerange[k] \in ItemsOf(timerange_split[j])}) = 1
    /\ FilenameDetermines

\* two processes run at once and each has saved a document
C10_Witness ==
    /\ \E a, b \in files : a[2] # b[2]
    /\ \E p, q \in 1 .. n_workers : p # q /\ wstate[p] = "working" /\ wstate[q] = "working"

\* C3: when the left capture of a pair is Absent the pair is skipped: the
\* assembling step emits no page, leaves the progress where it is, raises
\* nothing and the attempt goes on to the next pair.
C3_LeftAbsentPairSkipped ==
    [][(wpc = "assemble" /\ left_data = Absent)
         => (c' = c /\ pbar' = pbar /\ wpc' = "spread")]_vars

\* C4: an item given up was attempted exactly `retries` times; no item is
\* attempted more often; a failing item ends neither the worker nor the
\* shard: the worker ends only by closing the browser after every item of
\* the shard was attempted and either saved or given up.
C4_RetriesThenSkip ==
    /\ \A i \in 1 .. Len(shard) :
         /\ attempts[i] <= retries
         /\ outcome[i] = "skipped" => attempts[i] = retries
         /\ i < idx => outcome[i] # "none"
    /\ wpc = "crashed" => idx = 0
    /\ wpc = "closed" =>
         \A i \in 1 .. Len(shard) : attempts[i] >= 1 /\ outcome[i] # "none"

\* the first item was given up and the worker attempted the second and closed
C4_Witness ==
    /\ wpc = "closed"
    /\ Len(shard) >= 2
    /\ outcome[1] = "skipped"
    /\ attempts[1] = retries
    /\ attempts[2] >= 1

\* a call of _fetch_canvas_imagedata has ended, by return or by exception
CapEnded == cap.st \in {"returned", "raised"}

\* C5: a call in which no extraction succeeded made exactly `retries`
\* extraction attempts, each followed by one wait, and returned Absent; a
\* call in which an extraction succeeded returned its bytes at once, after
\* one wait per earlier failure; no extraction starts before the wait that
\* follows the previous failure.
C5_CaptureRetryCount ==
    /\ (CapEnded /\ cap.result = Absent) =>
         /\ cap.st = "returned"
         /\ cap.evals = retries
         /\ cap.waits = retries
    /\ (CapEnded /\ cap.result # Absent) =>
         /\ cap.st = "returned"
         /\ cap.evals <= retries
         /\ cap.waits = cap.evals - 1
    /\ cap.st = "eval" => cap.waits = cap.evals

\* C6: no call of _fetch_canvas_imagedata ends by an exception: whatever
\* fails in an attempt, the caller receives bytes or Absent.
C6_CaptureNeverRaises == cap.st # "raised"

\* C7: a pair with the left capture present and the right Absent emits
\* exactly one page, the left capture as it is, and one progress unit.
C7_LeftAloneOnePage ==
    [][(wpc = "assemble" /\ left_data # Absent /\ right_data = Absent)
         => /\ c' = Append(c, [size |-> <<left_data.w, left_data.h>>, img |-> left_data])
            /\ pbar' = pbar + 1
            /\ wpc' = "spread"]_vars

\* the first pair of an attempt was emitted as its left capture alone
C7_Witness ==
    /\ wpc = "spread"
    /\ canvas_id = 2
    /\ left_data # Absent
    /\ right_data = Absent
    /\ Len(c) = 2
    /\ c[2].img = left_data
    /\ pbar = 2

\* C8: a pair with both captures present emits exactly one page, as wide as
\* both together and as high as the higher, left pasted at (0,0) and right
\* at (left.width, 0), and two progress units.
C8_BothSidesStitched ==
    [][(wpc = "assemble" /\ left_data # Absent /\ right_data # Absent)
         => /\ Len(c') = Len(c) + 1
            /\ SubSeq(c', 1, Len(c)) = c
            /\ c'[Len(c')].size = <<left_data.w + right_data.w,
                                    Max(left_data.h, right_data.h)>>
            /\ c'[Len(c')].img.paste =
                 << [x |-> 0, y |-> 0, img |-> left_data],
                    [x |-> left_data.w, y |-> 0, img |-> right_data] >>
            /\ pbar' = pbar + 2
            /\ wpc' = "spread"]_vars

\* a pair whose right capture is the higher one was stitched
C8_Witness ==
    /\ wpc = "spread"
    /\ canvas_id = 2
    /\ left_data # Absent
    /\ right_data # Absent
    /\ right_data.h > left_data.h
    /\ Len(c) = 2
    /\ c[2].size = <<left_data.w + right_data.w, right_data.h>>
    /\ pbar = 3

\* C11: the cookie file is written at most once in a run, by the main
\* process at the end of its sign-in pass and while no worker was started;
\* once a worker is started the file no longer changes, and workers read it.
C11_CookieWrittenOnceBeforeWorkers ==
    /\ [](cookie_writes <= 1)
    /\ [][(cookie_file' # cookie_file \/ cookie_writes' # cookie_writes)
            => /\ mpc = "final"
               /\ workers = <<>>
               /\ \A p \in 1 .. MaxWorkers : wstate[p] = "unstarted"]_vars
    /\ [](\A p \in 1 .. MaxWorkers :
            wstate[p] \in {"working", "terminated"} => p \in cookie_readers)

\* two workers have read the file the sign-in pass wrote once
C11_Witness ==
    /\ cookie_writes = 1
    /\ cookie_file = "fresh"
    /\ \E p, q \in 1 .. MaxWorkers : p # q /\ {p, q} \subseteq cookie_readers

\* a date range the claim calls invalid: a month or year out of bounds, or
\* the start after the end
InvalidRange ==
    \/ ~ValidDate(date_start)
    \/ ~ValidDate(date_end)
    \/ Ordinal(date_start) > Ordinal(date_end)

\* C12: on an invalid date range no browsing is ever done: no browser is
\* launched, no sign-in step is run and the cookie file is neither read nor
\* written; the run ends in the input error.
C12_InvalidRangeFailsBeforeBrowsing ==
    InvalidRange =>
      /\ ~page.launched
      /\ steps = <<>>
      /\ cookie_readers = {}
      /\ cookie_writes = 0
      /\ mpc \in {"preflight", "timerange", "input_error"}

\* C13: when the last wait for the archive URL times out the sign-in ends in
\* the RuntimeError, the cookie file was not written and no worker is ever
\* started; the file is written only with the page at the archive URL.
C13_AuthErrorLeavesFile ==
    /\ mpc = "auth_error" =>
         /\ ~page.at_archive
         /\ cookie_writes = 0
         /\ cookie_file # "fresh"
         /\ workers = <<>>
         /\ \A p \in 1 .. MaxWorkers : wstate[p] = "unstarted"
    /\ cookie_writes > 0 => (page.at_archive /\ cookie_file = "fresh")
    /\ (mpc \in {"timerange", "partition", "start", "join", "done", "input_error"})
         => (cookie_writes = 1 /\ cookie_file = "fresh")

\* the whole sign-in flow ran over a stale file and the archive was not reached
C13_Witness ==
    /\ mpc = "auth_error"
    /\ Len(steps) = 4
    /\ page.cookies = "stale"
    /\ cookie_file = "stale"

\* the credential sub-steps
CredentialSteps == {"email", "password", "otp"}

\* C14: with valid cookies loaded into the context and the archive reached at
\* the first wait, no credential sub-step is run and the operator is not
\* asked; the last wait then succeeds and the cookies are saved again.
C14_ValidCookiesSkipSignin ==
    /\ []((/\ page.cookies = "valid"
           /\ page.at_archive
           /\ mpc \in {"email", "password", "otp", "final"})
          => /\ ~signin_state
             /\ \A k \in 1 .. Len(steps) : steps[k].step \notin CredentialSteps
             /\ ~otp_input)
    /\ [][(page.cookies = "valid" /\ page.at_archive /\ mpc = "final")
            => /\ mpc' = "timerange"
               /\ cookie_file' = "fresh"
               /\ cookie_writes' = cookie_writes + 1]_vars

\* valid cookies were replayed, only the click was tried, and the file was saved
C14_Witness ==
    /\ mpc = "timerange"
    /\ page.cookies = "valid"
    /\ \A k \in 1 .. Len(steps) : steps[k].step \notin CredentialSteps
    /\ ~otp_input
    /\ cookie_writes = 1

\* the order of the sign-in sub-steps
StepOrder == <<"click", "email", "password", "otp">>

\* C15: the sub-steps run in the order click, email, password, one-time code,
\* each at most once and each only after the one before it succeeded; a step
\* that timed out raised nothing and no later step ran.
C15_SigninStepsGated ==
    /\ Len(steps) <= 4
    /\ \A k \in 1 .. Len(steps) :
         /\ steps[k].step = StepOrder[k]
         /\ k > 1 => steps[k - 1].ok
    /\ mpc = "crashed" =>
         \/ steps = <<>>
         \/ (steps[Len(steps)].step = "otp" /\ otp_input)

\* the password step timed out: the one-time code was not asked for, and the
\* sign-in went on to its last wait
C15_Witness ==
    /\ mpc = "final"
    /\ Len(steps) = 3
    /\ steps[2].ok
    /\ ~steps[3].ok
    /\ ~otp_input

\* C16: within one call every capture of a left canvas (an even id) comes
\* right after a network-idle wait that itself comes right after the click
\* on nextPage, and the capture of the right canvas follows the return of
\* the left one: advance, wait, capture left, capture right.
C16_AdvanceThenIdleThenCapture ==
    \A k \in 1 .. Len(trail) :
      /\ (trail[k].ev = "capture" /\ trail[k].id >= 2 /\ trail[k].id % 2 = 0)
           => /\ k > 2
              /\ trail[k - 1] = Idle
              /\ trail[k - 2] = Advance
      /\ (trail[k].ev = "capture" /\ trail[k].id >= 3 /\ trail[k].id % 2 = 1)
           => /\ k > 2
              /\ trail[k - 1].ev \in {"present", "absent"}
              /\ trail[k - 1].id = trail[k].id - 1
              /\ trail[k - 2] = Requested(trail[k].id - 1)

\* the number of clicks on nextPage in the current call
Advances == Cardinality({k \in 1 .. Len(trail) : trail[k] = Advance})

\* C17: a document is saved only by a call that showed the cover and went
\* through every pass of the spread loop, and it holds the pages of that call
\* alone; every call starts on an empty document; after a call saved, no
\* further call is made for the item.
C17_AllOrNothingPerAttempt ==
    /\ [][\A i \in 1 .. Len(shard) :
            (outcome'[i] = "saved" /\ outcome[i] # "saved")
              => /\ i = idx
                 /\ wpc = "spread"
                 /\ ~(NextCanvas < n_pages + 1)
                 /\ cover_data # Absent
                 /\ Returned(1, cover_data) \in {trail[k] : k \in 1 .. Len(trail)}
                 /\ Advances = n_pages \div 2
                 /\ Len(c) = 1 + (n_pages \div 2)
                 /\ c[1] = AddToCanvas(cover_data).page
                 /\ c' = c]_vars
    /\ [][(wpc = "navigate" /\ wpc' = "capture") => c' = <<>>]_vars
    /\ [][\A i \in 1 .. Len(shard) :
            outcome[i] = "saved"
              => (outcome'[i] = "saved" /\ attempts'[i] = attempts[i])]_vars

\* an item saved by its last call, after an earlier call of it had failed,
\* with a cover and a spread page
C17_Witness ==
    /\ idx >= 1
    /\ outcome[idx] = "saved"
    /\ attempts[idx] = retries
    /\ Len(c) = 2

\* C19: a call whose cover capture returned None raises in __add_to_canvas,
\* with nothing shown, no click on nextPage, no spread capture and nothing
\* saved, and it stays counted as one call of the item; an item whose calls
\* all end this way is skipped after exactly `retries` calls, nothing saved.
C19_AbsentCoverRaises ==
    /\ [][(wpc = "add_cover" /\ cover_data = Absent)
            => /\ wpc' = "retry"
               /\ c = <<>> /\ c' = <<>>
               /\ trail = <<Requested(1), Returned(1, Absent)>>
               /\ trail' = trail
               /\ outcome' = outcome
               /\ outcome[idx] = "none"
               /\ attempts' = attempts
               /\ attempts[idx] = tries
               /\ tries' = tries]_vars
    /\ [](cover_raises = retries
            => /\ idx >= 1
               /\ attempts[idx] = retries
               /\ \/ wpc = "retry" /\ outcome[idx] = "none"
                  \/ wpc \in {"items", "closed"} /\ outcome[idx] = "skipped")
    /\ [][(wpc = "retry" /\ cover_raises = retries)
            => (outcome'[idx] = "skipped" /\ wpc' = "items")]_vars

\* every call of the item raised at the cover and the item was skipped
C19_Witness ==
    /\ cover_raises = retries
    /\ idx >= 1
    /\ outcome[idx] = "skipped"

\* the canvas ids whose capture was requested in the current call, in order
RequestedIds ==
    LET req == SelectSeq(trail, LAMBDA e : e.ev = "capture")
    IN  [k \in 1 .. Len(req) |-> req[k].id]

\* the current call has returned without raising
CallCompleted ==
    /\ idx >= 1
    /\ outcome[idx] = "saved"
    /\ wpc \in {"items", "closed"}

\* every canvas 1 .. n_pages was captured and canvas n_pages + 1 was not
AllPagesCaptured ==
    /\ \A id \in 1 .. n_pages :
         \E k \in 1 .. Len(trail) : trail[k] = [ev |-> "present", id |-> id]
    /\ ~ \E k \in 1 .. Len(trail) :
           trail[k] = [ev |-> "present", id |-> n_pages + 1]

C18_EveryRunTerminates ==
    /\ [](\A i \in 1 .. Len(shard) : attempts[i] <= retries)
    /\ [](tries <= retries)
    /\ [](cap.evals <= retries /\ cap.iter <= retries /\ cap.waits <= retries)
    /\ [](\A p \in 2 .. MaxRunWorkers :
            wstate[p] = "working" => widx[p] <= Len(ArgRange(p)))
    /\ <>(\A p \in 1 .. n_workers : wstate[p] = "terminated")
    /\ <>(wpc \in {"closed", "crashed"})
    /\ <>notice

\* the notice was printed after process 1 gave up its first item and saved
\* its second
C18_Witness ==
    /\ notice
    /\ Len(shard) = MaxShard
    /\ outcome[1] = "skipped"
    /\ attempts[1] = retries
    /\ outcome[Len(shard)] = "saved"

====
